---- MODULE Spec2Model ----
(***************************************************************************)
(* Model of the control/state binding layer of PyLNP's Tkinter interface   *)
(* (src/tkgui.py): the ToolTip hover notifier with its enter/leave         *)
(* handlers, the controls registry refreshed by update_displays, and the   *)
(* utility and hack lists rebuilt by update_autorun_list/update_hack_list. *)
(***************************************************************************)
EXTENDS Integers, Sequences, FiniteSets, TLC

(***************************************************************************)
(* Bounds of the model.                                                    *)
(***************************************************************************)
\* number of `after' timers one tooltip may schedule in a run
MaxTimers == 3
\* number of Toplevel annotation windows that may be created in a run
MaxWins == 3
\* pointer coordinates range over 0..MaxCoord on each axis
MaxCoord == 1
\* milliseconds of event-loop time that pass in one Tick
TickMs == 250

\* _TOOLTIP_DELAY, the debounce delay in milliseconds
TOOLTIP_DELAY == 500
\* the offset of the annotation from the pointer, in pixels
TIP_OFFSET == 16

\* tooltip texts: the empty text and two different non-empty ones
Texts == {"", "a", "b"}
Coords == 0..MaxCoord
Points == Coords \X Coords

VARIABLES
    \* ---- ToolTip object (one tooltip and the widget it is attached to)
    text,        \* ToolTip.text
    tipwindow,   \* ToolTip.tipwindow: 0 is None, otherwise the Toplevel's id
    active,      \* ToolTip.active
    event,       \* ToolTip.event: 0 is None, otherwise an `after' id
    \* ---- Tk state the tooltip code acts on
    toplevels,   \* the Toplevel windows that exist: records [id, text, x, y]
    created,     \* how many Toplevel windows have been created so far
    timers,      \* scheduled `after' callbacks: records [id, due]
    nextTimer,   \* how many `after' callbacks have been scheduled so far
    ptr,         \* pointer position <<x, y>>
    inside,      \* the pointer is over the widget
    tipLast      \* the last tooltip event handled

tipVars == <<text, tipwindow, active, event, toplevels, created, timers,
             nextTimer, ptr, inside, tipLast>>

VARIABLES
    \* ---- the controller (self.lnp), seen through the calls the GUI makes
    settings,    \* lnp.settings: key -> value, for the keys it has a value for
    pack,        \* what lnp.current_pack() returns
    autoClose,   \* what lnp.userconfig.get_bool('autoClose') returns
    \* ---- TkGui
    controls,    \* self.controls: key -> [widget, func], func "none" for a
                 \* bare widget
    widget,      \* per registered key: the Button/Label text, the Entry content
    order,       \* the order in which self.controls.keys() yields the keys
    rootAlive,   \* self.root has not been destroyed
    guiLast      \* the last TkGui handler run: [op, out, twice, arg, writes,
                 \* depth, rejected, calls]

guiVars == <<settings, pack, autoClose, controls, widget, order, rootAlive,
            guiLast>>

VARIABLES
    \* ---- the controller's data behind the two lists
    autorun,     \* lnp.autorun
    hidePath,    \* lnp.config["hideUtilityPath"]
    hacks,       \* lnp.get_hacks(): hack name -> its 'enabled' entry
    \* ---- TkGui
    progs,       \* self.progs
    proglist,    \* the rows of the utility Treeview, top to bottom
    hacklist,    \* the rows of the hack Treeview, top to bottom
    hackSel,     \* the selection of the hack Treeview: names of its rows
    selEvents,   \* how many <<TreeviewSelect>> events wait to be handled
    clicks,      \* how many rows of the hack list the user has clicked
    listLast     \* the last list handler run: [op, out, toggled]

listVars == <<autorun, hidePath, hacks, progs, proglist, hacklist, hackSel,
              selEvents, clicks, listLast>>

VARIABLES
    \* ---- the controller's keybinding and color scheme files
    kbFiles,     \* the keybinding files lnp.keybind_exists answers for
    colFiles,    \* the color schemes lnp.color_exists answers for
    \* ---- TkGui
    keybinds,    \* self.keybinds: the rows of the keybinding Listbox
    colors,      \* self.colors: the rows of the color scheme Listbox
    kbSel,       \* curselection() of the keybinding Listbox: a row, 0 if none
    colSel       \* curselection() of the color scheme Listbox

fileVars == <<kbFiles, colFiles, keybinds, colors, kbSel, colSel>>

VARIABLES
    \* ---- UpdateWindow
    updateDays,  \* what lnp.userconfig.get_number('updateDays') returns
    top,         \* self.top: "none" (no new version, no window), "open",
                 \* "destroyed"
    var,         \* self.var: the option the OptionMenu shows
    uwCalls,     \* the calls the window has made to the controller, in order
    uwLast       \* how the window was dismissed: "yes", "no", "wm"

updVars == <<updateDays, top, var, uwCalls, uwLast>>

vars == <<tipVars, guiVars, listVars, fileVars, updVars>>

None == 0

Max(a, b) == IF a >= b THEN a ELSE b

(***************************************************************************)
(* ToolTip, as a record of the object's fields and the Tk windows.         *)
(***************************************************************************)
TipState ==
    [text |-> text, tipwindow |-> tipwindow, active |-> active,
     toplevels |-> toplevels, created |-> created]

\* showtip without the test for a window that is already there
showtip_no_window_test(s, p) ==
    LET s1 == [s EXCEPT !.active = TRUE]
    IN  IF s1.text = ""
        THEN s1
        ELSE LET tw == s1.created + 1
             IN  [s1 EXCEPT !.tipwindow = tw,
                            !.created = tw,
                            !.toplevels = @ \cup
                                {[id |-> tw, text |-> s1.text,
                                  x |-> p[1] + TIP_OFFSET,
                                  y |-> p[2] + TIP_OFFSET]}]

\* showtip without the test for an empty text
showtip_shows_empty(s, p) ==
    LET s1 == [s EXCEPT !.active = TRUE]
    IN  IF s1.tipwindow # None
        THEN s1
        ELSE LET tw == s1.created + 1
             IN  [s1 EXCEPT !.tipwindow = tw,
                            !.created = tw,
                            !.toplevels = @ \cup
                                {[id |-> tw, text |-> s1.text,
                                  x |-> p[1] + TIP_OFFSET,
                                  y |-> p[2] + TIP_OFFSET]}]

\* ToolTip.showtip with the pointer at p
showtip(s, p) ==
    LET s1 == [s EXCEPT !.active = TRUE]
    IN  IF s1.tipwindow # None \/ s1.text = ""
        THEN s1
        ELSE LET tw == s1.created + 1
                 x == p[1] + TIP_OFFSET
                 y == p[2] + TIP_OFFSET
             IN  [s1 EXCEPT !.tipwindow = tw,
                            !.created = tw,
                            !.toplevels = @ \cup
                                {[id |-> tw, text |-> s1.text, x |-> x, y |-> y]}]

\* hidetip that destroys the window but leaves the tooltip active
hidetip_keeps_active(s) ==
    LET tw == s.tipwindow
    IN  [s EXCEPT !.tipwindow = None,
                  !.toplevels = IF tw # None
                                THEN {w \in @ : w.id # tw}
                                ELSE @]

\* hidetip that forgets the window without destroying it
hidetip_no_destroy(s) ==
    [s EXCEPT !.tipwindow = None, !.active = FALSE]

\* ToolTip.hidetip
hidetip(s) ==
    LET tw == s.tipwindow
    IN  [s EXCEPT !.tipwindow = None,
                  !.active = FALSE,
                  !.toplevels = IF tw # None
                                THEN {w \in @ : w.id # tw}
                                ELSE @]

\* settext that stores the text and leaves the annotation as it is
settext_no_redraw(s, t, p) ==
    IF t = s.text THEN s ELSE [s EXCEPT !.text = t]

\* settext that only hides an active tooltip when the new text is empty
settext_hides_on_empty(s, t, p) ==
    IF t = s.text
    THEN s
    ELSE LET s1 == [s EXCEPT !.text = t]
         IN  IF s1.active
             THEN IF t = "" THEN hidetip(s1) ELSE showtip(hidetip(s1), p)
             ELSE s1

\* settext without the test for an unchanged text
settext_always_redraws(s, t, p) ==
    LET s1 == [s EXCEPT !.text = t]
    IN  IF s1.active THEN showtip(hidetip(s1), p) ELSE s1

\* settext that redraws where the old annotation was
settext_keeps_anchor(s, t, p) ==
    IF t = s.text
    THEN s
    ELSE LET s1 == [s EXCEPT !.text = t]
             old == {w \in s.toplevels : w.id = s.tipwindow}
             at == IF old = {} THEN p
                   ELSE LET w == CHOOSE w \in old : TRUE
                        IN  <<w.x - TIP_OFFSET, w.y - TIP_OFFSET>>
         IN  IF s1.active THEN showtip(hidetip(s1), at) ELSE s1

\* ToolTip.settext with the pointer at p
settext(s, t, p) ==
    IF t = s.text
    THEN s
    ELSE LET s1 == [s EXCEPT !.text = t]
         IN  IF s1.active THEN showtip(hidetip(s1), p) ELSE s1

\* the ToolTip fields and Tk windows take the values of record s
TipBecomes(s) ==
    /\ text' = s.text
    /\ tipwindow' = s.tipwindow
    /\ active' = s.active
    /\ toplevels' = s.toplevels
    /\ created' = s.created

(***************************************************************************)
(* Event handlers of create_tooltip and the Tk timer queue.               *)
(***************************************************************************)
\* widget.after_cancel(id)
after_cancel(ts, id) == {t \in ts : t.id # id}

\* enter that schedules a timer without cancelling the pending one
enter_stacks_timers ==
    /\ nextTimer < MaxTimers
    /\ LET id == nextTimer + 1
       IN  /\ timers' = timers \cup {[id |-> id, due |-> TOOLTIP_DELAY]}
           /\ event' = id
           /\ nextTimer' = id
    /\ inside' = TRUE
    /\ tipLast' = "enter"
    /\ UNCHANGED <<text, tipwindow, active, toplevels, created, ptr>>
    /\ UNCHANGED <<guiVars, listVars, fileVars, updVars>>

\* create_tooltip.enter, bound to <Enter>
enter ==
    /\ nextTimer < MaxTimers
    /\ LET cancelled == IF event # None THEN after_cancel(timers, event)
                        ELSE timers
           id == nextTimer + 1
       IN  /\ timers' = cancelled \cup {[id |-> id, due |-> TOOLTIP_DELAY]}
           /\ event' = id
           /\ nextTimer' = id
    /\ inside' = TRUE
    /\ tipLast' = "enter"
    /\ UNCHANGED <<text, tipwindow, active, toplevels, created, ptr>>
    /\ UNCHANGED <<guiVars, listVars, fileVars, updVars>>

\* leave that hides the tooltip but leaves the timer scheduled
leave_keeps_timer ==
    /\ TipBecomes(hidetip(TipState))
    /\ inside' = FALSE
    /\ tipLast' = "leave"
    /\ UNCHANGED <<timers, event, nextTimer, ptr>>
    /\ UNCHANGED <<guiVars, listVars, fileVars, updVars>>

\* create_tooltip.leave, bound to <Leave>
leave ==
    /\ IF event # None
       THEN /\ timers' = after_cancel(timers, event)
            /\ event' = None
       ELSE UNCHANGED <<timers, event>>
    /\ TipBecomes(hidetip(TipState))
    /\ inside' = FALSE
    /\ tipLast' = "leave"
    /\ UNCHANGED <<nextTimer, ptr>>
    /\ UNCHANGED <<guiVars, listVars, fileVars, updVars>>

\* the event loop runs for TickMs milliseconds without handling an event
Tick ==
    /\ \E t \in timers : t.due > 0
    /\ timers' = {[t EXCEPT !.due = Max(0, t.due - TickMs)] : t \in timers}
    /\ tipLast' = "tick"
    /\ UNCHANGED <<text, tipwindow, active, event, toplevels, created,
                   nextTimer, ptr, inside>>
    /\ UNCHANGED <<guiVars, listVars, fileVars, updVars>>

\* a due `after' callback runs: tooltip.showtip
TimerFires ==
    /\ created < MaxWins
    /\ \E t \in timers :
          /\ t.due = 0
          /\ timers' = timers \ {t}
    /\ TipBecomes(showtip(TipState, ptr))
    /\ tipLast' = "timer"
    /\ UNCHANGED <<event, nextTimer, ptr, inside>>
    /\ UNCHANGED <<guiVars, listVars, fileVars, updVars>>

\* the pointer moves over a widget whose <Motion> is not bound
Motion ==
    /\ inside
    /\ \E p \in Points : p # ptr /\ ptr' = p
    /\ tipLast' = "motion"
    /\ UNCHANGED <<text, tipwindow, active, event, toplevels, created,
                   timers, nextTimer, inside>>
    /\ UNCHANGED <<guiVars, listVars, fileVars, updVars>>

\* TkGui.update_hack_tooltip, bound to <Motion> on the hack list: the row
\* under the pointer has tooltip t ("" when there is no such hack)
update_hack_tooltip ==
    /\ inside
    /\ created < MaxWins
    /\ \E p \in Points, t \in Texts :
          /\ ptr' = p
          /\ TipBecomes(settext(TipState, t, p))
    /\ tipLast' = "settext"
    /\ UNCHANGED <<event, timers, nextTimer, inside>>
    /\ UNCHANGED <<guiVars, listVars, fileVars, updVars>>

\* ToolTip.settext called while no pointer event is being handled
SetText ==
    /\ created < MaxWins
    /\ \E t \in Texts : TipBecomes(settext(TipState, t, ptr))
    /\ tipLast' = "settext"
    /\ UNCHANGED <<event, timers, nextTimer, ptr, inside>>
    /\ UNCHANGED <<guiVars, listVars, fileVars, updVars>>

(***************************************************************************)
(* Strings are sequences of pieces; ":" and " " are pieces of their own, so *)
(* that str.split(':') and the validation of numbers can be computed.      *)
(***************************************************************************)
Digits == {ToString(n) : n \in 0..9}

\* str(n) for a one-digit integer
str(n) == <<ToString(n)>>

\* text.split(':')[0]
split0(t) ==
    LET colons == {i \in 1..Len(t) : t[i] = ":"}
    IN  IF colons = {} THEN t
        ELSE SubSeq(t, 1, (CHOOSE i \in colons : \A j \in colons : i <= j) - 1)

\* validate_number: the empty string, or a string float() accepts
validate_number(value_if_allowed) ==
    \/ value_if_allowed = <<>>
    \/ \A i \in 1..Len(value_if_allowed) : value_if_allowed[i] \in Digits

(***************************************************************************)
(* The controls registry, as create_options, create_graphics and          *)
(* create_advanced fill it: one control of each shape.                     *)
(***************************************************************************)
Keys == {"popcap", "invaders", "childcap", "FONT", "volume", "autoClose"}

\* what is registered under each key: a bare widget (func "none"), or a
\* (widget, func) tuple
Bindings ==
    [k \in Keys |->
        CASE k = "popcap"    -> [widget |-> "Button", func |-> "none"]
          [] k = "invaders"  -> [widget |-> "Button", func |-> "none"]
          [] k = "childcap"  -> [widget |-> "Button", func |-> "none"]
          [] k = "FONT"      -> [widget |-> "Label", func |-> "current_pack"]
          [] k = "volume"    -> [widget |-> "Entry", func |-> "none"]
          [] k = "autoClose" -> [widget |-> "Button", func |-> "autoClose"]]

\* the text each control is constructed with (an Entry starts empty)
ConstructionText ==
    [k \in Keys |->
        CASE k = "popcap"    -> <<"Population Cap">>
          [] k = "invaders"  -> <<"Invaders">>
          [] k = "childcap"  -> <<"Child Cap">>
          [] k = "FONT"      -> <<"Current Graphics">>
          [] k = "volume"    -> <<>>
          [] k = "autoClose" -> <<"Close GUI on launch">>]

\* the order in which the keys are registered
InsertionOrder ==
    <<"popcap", "invaders", "childcap", "FONT", "volume", "autoClose">>

\* dict.keys() yields the keys in an order fixed for the session
KeyOrders == {InsertionOrder}

\* self.controls[key] = binding
register(reg, key, binding) ==
    [k \in (DOMAIN reg) \cup {key} |-> IF k = key THEN binding ELSE reg[k]]

RECURSIVE register_from(_, _)
\* the assignments to self.controls of create_options, create_graphics and
\* create_advanced, from the i-th on
register_from(reg, i) ==
    IF i > Len(InsertionOrder) THEN reg
    ELSE register_from(
             register(reg, InsertionOrder[i], Bindings[InsertionOrder[i]]),
             i + 1)

\* self.controls = dict()
EmptyDict == [k \in {} |-> Bindings["popcap"]]

\* self.controls when __init__ has built the interface
ConstructedControls == register_from(EmptyDict, 1)

(***************************************************************************)
(* The controller.  Its code is not part of tkgui.py: it is modelled from  *)
(* the interface the specification gives (getValue, setValue).             *)
(***************************************************************************)
\* settings files a load can find on disk: the game's defaults, one without
\* a population cap, one without a volume, one with a volume that is no
\* number.  autoClose is no setting of lnp.settings (it is in lnp.userconfig).
Defaults ==
    [popcap |-> <<"1">>, invaders |-> <<"YES">>, childcap |-> <<"1", ":", "2">>,
     FONT |-> <<"curses.png">>, volume |-> <<"1">>]

Without(f, k) == [x \in (DOMAIN f) \ {k} |-> f[x]]

LoadableSettings ==
    {Defaults,
     Without(Defaults, "popcap"),
     Without(Defaults, "volume"),
     [Defaults EXCEPT !.volume = <<"a">>]}

\* what the user enters in the askinteger dialogs
PopCapInputs == {1, 2}
ChildCapInputs == {<<1, 2>>, <<2, 1>>}

Packs == {<<"Phoebus">>, <<"ASCII">>}

Controller == [settings |-> settings, pack |-> pack, autoClose |-> autoClose]

\* lnp.set_option(key, value)
lnp_set_option(c, key, value) ==
    [c EXCEPT !.settings = (key :> value) @@ @]

\* lnp.cycle_option(field): the next of the field's values
lnp_cycle_option(c, field) ==
    IF field \notin DOMAIN c.settings THEN c
    ELSE [c EXCEPT !.settings[field] =
             IF @ = <<"YES">> THEN <<"NO">> ELSE <<"YES">>]

\* lnp.toggle_autoclose()
lnp_toggle_autoclose(c) == [c EXCEPT !.autoClose = ~@]

\* lnp.restore_defaults()
lnp_restore_defaults(c) == [c EXCEPT !.settings = Defaults]

(***************************************************************************)
(* TkGui.update_displays.  g is [c, w, raised, writes, depth, maxDepth]:    *)
(* the controller, the widget texts, whether an exception has left the     *)
(* method, the lnp.set_option calls change_entry has made, how many        *)
(* update_displays calls are in progress and how many there were at most.  *)
(***************************************************************************)
NoValue == [some |-> FALSE, val |-> <<>>]
Some(v) == [some |-> TRUE, val |-> v]

\* the func of a (control, func) tuple, called with the raw value
Project(func, c, value) ==
    CASE func = "current_pack" -> c.pack
      [] func = "autoClose"    -> IF c.autoClose THEN <<"YES">> ELSE <<"NO">>

\* the state a handler starts from: no update_displays is in progress
GuiState(c, w) ==
    [c |-> c, w |-> w, raised |-> FALSE, writes |-> {}, depth |-> 0,
     maxDepth |-> 0]

\* change_entry that ends, as the other handlers do, with a call of
\* update_displays, which recurses until Python gives up
change_entry_refreshes(g, key, content) ==
    IF content # <<>>
    THEN [g EXCEPT !.c = lnp_set_option(@, key, content),
                   !.writes = @ \cup {[key |-> key, value |-> content]},
                   !.maxDepth = Max(@, g.depth + 1),
                   !.raised = TRUE]
    ELSE g

\* change_entry without the test for an empty content
change_entry_writes_empty(g, key, content) ==
    [g EXCEPT !.c = lnp_set_option(@, key, content),
              !.writes = @ \cup {[key |-> key, value |-> content]}]

\* TkGui.change_entry: the write trace of an Entry's text variable
change_entry(g, key, content) ==
    IF content # <<>>
    THEN [g EXCEPT !.c = lnp_set_option(@, key, content),
                   !.writes = @ \cup {[key |-> key, value |-> content]}]
    ELSE g

\* Entry.delete(0, END): validated ('' is allowed), then the trace runs
entry_delete(g, key) ==
    IF validate_number(<<>>)
    THEN change_entry([g EXCEPT !.w[key] = <<>>], key, <<>>)
    ELSE g

\* Entry.insert(0, value) into an emptied Entry: validate='key' submits the
\* new content to validate_number and drops the insert when it says no
entry_insert(g, key, value) ==
    IF validate_number(value \o g.w[key])
    THEN change_entry([g EXCEPT !.w[key] = value \o @], key, value \o g.w[key])
    ELSE g

\* the non-Entry branch that cuts the text at its last ':'
set_text_cuts_last(g, key, value) ==
    LET t == g.w[key]
        colons == {i \in 1..Len(t) : t[i] = ":"}
        head == IF colons = {} THEN t
                ELSE SubSeq(t, 1, (CHOOSE i \in colons :
                                      \A j \in colons : i >= j) - 1)
    IN  [g EXCEPT !.w[key] = head \o <<":", " ">> \o value]

\* the non-Entry branch that appends to the text without splitting it
set_text_appends(g, key, value) ==
    [g EXCEPT !.w[key] = @ \o <<":", " ">> \o value]

\* the non-Entry branch: control["text"] = control["text"].split(':')[0] + ': ' + value
set_text(g, key, value) ==
    [g EXCEPT !.w[key] = split0(@) \o <<":", " ">> \o value]

\* one pass of the loop body of update_displays
update_key(g, key) ==
    LET raw == IF key \in DOMAIN g.c.settings
               THEN Some(g.c.settings[key])
               ELSE NoValue
        ctl == controls[key]
        value == IF ctl.func # "none"
                 THEN Some(Project(ctl.func, g.c, raw))
                 ELSE raw
    IN  IF ctl.widget = "Entry"
        THEN LET g1 == entry_delete(g, key)
             IN  IF value.some
                 THEN entry_insert(g1, key, value.val)
                 ELSE [g1 EXCEPT !.raised = TRUE]
        ELSE IF value.some
             THEN set_text(g, key, value.val)
             ELSE [g EXCEPT !.raised = TRUE]

RECURSIVE update_from(_, _, _)
\* the loop of update_displays from the i-th key on; an exception ends it
update_from(g, ord, i) ==
    IF i > Len(ord) \/ g.raised
    THEN g
    ELSE update_from(update_key(g, ord[i]), ord, i + 1)

\* TkGui.update_displays on controller c and widget texts w
update_displays(c, w, ord) ==
    LET g0 == [GuiState(c, w) EXCEPT !.depth = @ + 1, !.maxDepth = @ + 1]
    IN  [update_from(g0, ord, 1) EXCEPT !.depth = @ - 1]

(***************************************************************************)
(* TkGui handlers.                                                         *)
(***************************************************************************)
\* one entry of guiLast.calls: a dialog with the user's answer, or a call
\* of the controller with its argument
Call(name, arg) == [call |-> name, arg |-> arg]

\* what guiLast records when handler op ends with outcome out ("done",
\* "cancelled" when it returned without calling the controller, "raised"),
\* and whether an update_displays follows an update_displays; calls is
\* filled in by the handlers that ask the user before they call
Last(op, out) ==
    [op |-> op, out |-> out,
     twice |-> (op = "update_displays" /\ guiLast.op = op), arg |-> "",
     writes |-> {}, depth |-> 0, rejected |-> FALSE, calls |-> <<>>]

\* the controller and the widgets take the values of g; op(arg) ends
GuiBecomesArg(g, op, arg) ==
    /\ settings' = g.c.settings
    /\ pack' = g.c.pack
    /\ autoClose' = g.c.autoClose
    /\ widget' = g.w
    /\ guiLast' = [Last(op, IF g.raised THEN "raised" ELSE "done") EXCEPT
                       !.arg = arg, !.writes = g.writes,
                       !.depth = g.maxDepth]

GuiBecomes(g, op) == GuiBecomesArg(g, op, "")

\* a handler that ends without touching the controller or the widgets
GuiEnds(op, out) ==
    /\ guiLast' = Last(op, out)
    /\ UNCHANGED <<settings, pack, autoClose, widget>>

\* the controller refuses the write of handler op(arg): the exception
\* leaves the handler at the call
WriteRejected(op, arg) ==
    /\ guiLast' = [Last(op, "raised") EXCEPT !.arg = arg, !.rejected = TRUE]
    /\ UNCHANGED <<settings, pack, autoClose, widget>>

\* update_displays that stores the control of a (control, func) tuple back
\* into self.controls
UpdateDisplays_unwraps ==
    /\ rootAlive
    /\ GuiBecomes(update_displays(Controller, widget, order), "update_displays")
    /\ controls' = [k \in DOMAIN controls |->
                        [controls[k] EXCEPT !.func = "none"]]
    /\ UNCHANGED <<order, rootAlive>>
    /\ UNCHANGED <<tipVars, listVars, fileVars, updVars>>

\* update_displays called on its own
UpdateDisplays ==
    /\ rootAlive
    /\ GuiBecomes(update_displays(Controller, widget, order), "update_displays")
    /\ UNCHANGED <<controls, order, rootAlive>>
    /\ UNCHANGED <<tipVars, listVars, fileVars, updVars>>

\* set_pop_cap that catches the controller's exception and goes on
set_pop_cap_swallows ==
    /\ rootAlive
    /\ IF "popcap" \notin DOMAIN settings
       THEN GuiEnds("set_pop_cap", "raised")
       ELSE \E entered \in BOOLEAN, v \in PopCapInputs :
               IF entered
               THEN \/ GuiBecomes(
                           update_displays(
                               lnp_set_option(Controller, "popcap", str(v)),
                               widget, order),
                           "set_pop_cap")
                    \/ LET g == update_displays(Controller, widget, order)
                       IN  /\ widget' = g.w
                           /\ guiLast' = [Last("set_pop_cap", "done") EXCEPT
                                              !.writes = g.writes,
                                              !.depth = g.maxDepth,
                                              !.rejected = TRUE]
                           /\ UNCHANGED <<settings, pack, autoClose>>
               ELSE GuiEnds("set_pop_cap", "cancelled")
    /\ UNCHANGED <<controls, order, rootAlive>>
    /\ UNCHANGED <<tipVars, listVars, fileVars, updVars>>

\* TkGui.set_pop_cap: the dialog is cancelled, or returns the integer v
set_pop_cap ==
    /\ rootAlive
    /\ IF "popcap" \notin DOMAIN settings
       THEN GuiEnds("set_pop_cap", "raised")
       ELSE \E entered \in BOOLEAN, v \in PopCapInputs :
               IF entered
               THEN \/ GuiBecomes(
                           update_displays(
                               lnp_set_option(Controller, "popcap", str(v)),
                               widget, order),
                           "set_pop_cap")
                    \/ WriteRejected("set_pop_cap", "")
               ELSE GuiEnds("set_pop_cap", "cancelled")
    /\ UNCHANGED <<controls, order, rootAlive>>
    /\ UNCHANGED <<tipVars, listVars, fileVars, updVars>>

\* TkGui.set_child_cap: either dialog is cancelled, or they return v and v2
set_child_cap ==
    /\ rootAlive
    /\ IF "childcap" \notin DOMAIN settings
       THEN GuiEnds("set_child_cap", "raised")
       ELSE \E entered \in BOOLEAN, vs \in ChildCapInputs :
               IF entered
               THEN \/ GuiBecomes(
                           update_displays(
                               lnp_set_option(
                                   Controller, "childcap",
                                   str(vs[1]) \o <<":">> \o str(vs[2])),
                               widget, order),
                           "set_child_cap")
                    \/ WriteRejected("set_child_cap", "")
               ELSE GuiEnds("set_child_cap", "cancelled")
    /\ UNCHANGED <<controls, order, rootAlive>>
    /\ UNCHANGED <<tipVars, listVars, fileVars, updVars>>

\* TkGui.cycle_option, the command of the cycling buttons
cycle_option ==
    /\ rootAlive
    /\ \E field \in {"invaders"} :
          \/ GuiBecomes(
                 update_displays(lnp_cycle_option(Controller, field),
                                 widget, order),
                 "cycle_option")
          \/ WriteRejected("cycle_option", "")
    /\ UNCHANGED <<controls, order, rootAlive>>
    /\ UNCHANGED <<tipVars, listVars, fileVars, updVars>>

\* TkGui.set_option(field): only an Entry has a get()
set_option ==
    /\ rootAlive
    /\ \E field \in Keys :
          IF controls[field].func = "none" /\ controls[field].widget = "Entry"
          THEN \/ GuiBecomesArg(
                      update_displays(
                          lnp_set_option(Controller, field, widget[field]),
                          widget, order),
                      "set_option", field)
               \/ WriteRejected("set_option", field)
          ELSE /\ guiLast' = [Last("set_option", "raised") EXCEPT
                                  !.arg = field]
               /\ UNCHANGED <<settings, pack, autoClose, widget>>
    /\ UNCHANGED <<controls, order, rootAlive>>
    /\ UNCHANGED <<tipVars, listVars, fileVars, updVars>>

\* TkGui.toggle_autoclose
toggle_autoclose ==
    /\ rootAlive
    /\ GuiBecomes(
           update_displays(lnp_toggle_autoclose(Controller), widget, order),
           "toggle_autoclose")
    /\ UNCHANGED <<controls, order, rootAlive>>
    /\ UNCHANGED <<tipVars, listVars, fileVars, updVars>>

\* update_displays after self.root.destroy(): the first access to a
\* control raises TclError
update_displays_destroyed(c, w) ==
    [GuiState(c, w) EXCEPT !.maxDepth = 1, !.raised = TRUE]

\* TkGui.load_params on controller c: lnp.load_params() reads the settings
\* anew, or raises IOError, and then exit_program destroys the root before
\* update_displays runs on the destroyed widgets
load_params_on(c, op) ==
    \/ /\ \E loaded \in LoadableSettings :
             GuiBecomes(
                 update_displays([c EXCEPT !.settings = loaded], widget, order),
                 op)
       /\ UNCHANGED <<controls, order, rootAlive>>
    \/ /\ rootAlive' = FALSE
       /\ GuiBecomes(update_displays_destroyed(c, widget), op)
       /\ UNCHANGED <<controls, order>>

\* TkGui.load_params
load_params ==
    /\ rootAlive
    /\ load_params_on(Controller, "load_params")
    /\ UNCHANGED <<tipVars, listVars, fileVars, updVars>>

\* TkGui.install_graphics: nothing is selected; or the user declines, or
\* lnp.install_graphics fails or installs the selected pack; then load_params
install_graphics ==
    /\ rootAlive
    /\ \/ /\ GuiEnds("install_graphics", "cancelled")
          /\ UNCHANGED <<controls, order, rootAlive>>
       \/ load_params_on(Controller, "install_graphics")
       \/ \E p \in Packs :
             load_params_on([Controller EXCEPT !.pack = p], "install_graphics")
    /\ UNCHANGED <<tipVars, listVars, fileVars, updVars>>

\* TkGui.restore_defaults: the user answers no, or yes
restore_defaults ==
    /\ rootAlive
    /\ \/ /\ guiLast' = [Last("restore_defaults", "cancelled") EXCEPT
                             !.arg = "no",
                             !.calls = <<Call("askyesno", <<"no">>)>>]
          /\ UNCHANGED <<settings, pack, autoClose, widget>>
       \/ /\ settings' = lnp_restore_defaults(Controller).settings
          /\ guiLast' = [Last("restore_defaults", "done") EXCEPT
                             !.arg = "yes",
                             !.calls = <<Call("askyesno", <<"yes">>),
                                         Call("restore_defaults", <<>>),
                                         Call("showinfo", <<>>)>>]
          /\ UNCHANGED <<pack, autoClose, widget>>
    /\ UNCHANGED <<controls, order, rootAlive>>
    /\ UNCHANGED <<tipVars, listVars, fileVars, updVars>>

\* a key typed into an Entry: the new content is validated, then the trace
\* of the text variable runs change_entry; the controller may refuse the
\* write, and Tk reports the exception of a trace
type_entry ==
    /\ rootAlive
    /\ \E key \in {k \in Keys : controls[k].widget = "Entry"},
          content \in {<<>>, <<"1">>, <<"a">>} :
          IF validate_number(content)
          THEN LET g == change_entry(
                            GuiState(Controller,
                                     [widget EXCEPT ![key] = content]),
                            key, content)
               IN  \/ GuiBecomesArg(g, "type_entry", key)
                   \/ /\ g.writes # {}
                      /\ widget' = g.w
                      /\ guiLast' = [Last("type_entry", "raised") EXCEPT
                                         !.arg = key, !.writes = g.writes,
                                         !.rejected = TRUE]
                      /\ UNCHANGED <<settings, pack, autoClose>>
          ELSE GuiEnds("type_entry", "cancelled")
    /\ UNCHANGED <<controls, order, rootAlive>>
    /\ UNCHANGED <<tipVars, listVars, fileVars, updVars>>

\* TkGui.__init__ up to root.mainloop(): the controls are created and
\* update_displays has run on them without raising
GuiInit ==
    /\ controls = ConstructedControls
    /\ order \in KeyOrders
    /\ rootAlive = TRUE
    /\ guiLast = [op |-> "init", out |-> "done", twice |-> FALSE,
                  arg |-> "", writes |-> {}, depth |-> 0,
                  rejected |-> FALSE, calls |-> <<>>]
    /\ pack \in Packs
    /\ autoClose \in BOOLEAN
    /\ \E s \in LoadableSettings :
          LET g == update_displays(
                       [settings |-> s, pack |-> pack, autoClose |-> autoClose],
                       ConstructionText, order)
          IN  /\ ~g.raised
              /\ settings = g.c.settings
              /\ widget = g.w

\* the interface while only a tooltip is looked at
GuiIdle ==
    /\ controls = ConstructedControls
    /\ order = InsertionOrder
    /\ rootAlive = TRUE
    /\ guiLast = [op |-> "init", out |-> "done", twice |-> FALSE,
                  arg |-> "", writes |-> {}, depth |-> 0,
                  rejected |-> FALSE, calls |-> <<>>]
    /\ pack = <<"ASCII">>
    /\ autoClose = FALSE
    /\ settings = Defaults
    /\ widget = update_displays(
                    [settings |-> Defaults, pack |-> <<"ASCII">>,
                     autoClose |-> FALSE],
                    ConstructionText, InsertionOrder).w

\* the bindings a registration may be given
BindingShapes == {Bindings[k] : k \in Keys}

\* one assignment self.controls[key] = binding, for any key and binding
Register ==
    /\ \E key \in Keys, binding \in BindingShapes :
          controls' = register(controls, key, binding)
    /\ guiLast' = Last("register", "done")
    /\ UNCHANGED <<settings, pack, autoClose, widget, order, rootAlive>>
    /\ UNCHANGED <<tipVars, listVars, fileVars, updVars>>

\* TkGui.__init__ at self.controls = dict(), before any create_* call
RegInit ==
    /\ controls = EmptyDict
    /\ order = InsertionOrder
    /\ rootAlive = TRUE
    /\ guiLast = [op |-> "new", out |-> "done", twice |-> FALSE,
                  arg |-> "", writes |-> {}, depth |-> 0,
                  rejected |-> FALSE, calls |-> <<>>]
    /\ pack = <<"ASCII">>
    /\ autoClose = FALSE
    /\ settings = Defaults
    /\ widget = ConstructionText

RegNext == Register

GuiNext ==
    \/ UpdateDisplays
    \/ set_pop_cap
    \/ set_child_cap
    \/ cycle_option
    \/ set_option
    \/ toggle_autoclose
    \/ load_params
    \/ install_graphics
    \/ restore_defaults
    \/ type_entry

(***************************************************************************)
(* The utility list and the hack list.  A path is [dir, stem, ext]; a row  *)
(* of a Treeview is [text, values].                                        *)
(***************************************************************************)
\* number of utilities lnp.read_utilities() may return
MaxProgs == 2

\* two utilities with the same file name in different directories
Paths ==
    {[dir |-> "x", stem |-> "a", ext |-> ".exe"],
     [dir |-> "y", stem |-> "a", ext |-> ".exe"]}

\* the text of the root item, which identify() names where there is no row
NoRow == [dir |-> "", stem |-> "", ext |-> ""]

ProgLists == UNION {[1..n -> Paths] : n \in 0..MaxProgs}

HackNames == {"h1", "h2"}

\* the order in which get_hacks().items() yields the hacks
HackOrder == <<"h1", "h2">>

\* a hack's 'enabled' entry: true, false, or no such entry (KeyError)
Enabled == {"true", "false", "KeyError"}

\* the dfhack section of the configuration: not empty
HackConfigs == [HackNames -> Enabled] \cup [{"h1"} -> Enabled]

\* lnp.toggle_autorun(item)
lnp_toggle_autorun(a, item) ==
    IF item \in a THEN a \ {item} ELSE a \cup {item}

\* lnp.toggle_hack(name), for a hack with an 'enabled' entry
lnp_toggle_hack(h, name) ==
    [h EXCEPT ![name] = IF @ = "true" THEN "false" ELSE "true"]

\* the state the list handlers act on
ListState ==
    [autorun |-> autorun, hidePath |-> hidePath, hacks |-> hacks,
     progs |-> progs, proglist |-> proglist, hacklist |-> hacklist,
     sel |-> hackSel, raised |-> FALSE]

\* Treeview.delete(item): the first row that is item goes
tv_delete(rows, item) ==
    LET at == {i \in 1..Len(rows) : rows[i] = item}
    IN  IF at = {} THEN rows
        ELSE LET i == CHOOSE i \in at : \A j \in at : i <= j
             IN  SubSeq(rows, 1, i - 1) \o SubSeq(rows, i + 1, Len(rows))

RECURSIVE delete_children(_, _, _)
\* for i in tv.get_children(): tv.delete(i)
delete_children(rows, children, i) ==
    IF i > Len(children) THEN rows
    ELSE delete_children(tv_delete(rows, children[i]), children, i + 1)

\* Treeview.insert('', 'end', text=..., values=...)
tv_insert_end(rows, text_, values) ==
    Append(rows, [text |-> text_, values |-> values])

\* the exe column of utility p
exe_of(p, hide) ==
    IF hide THEN <<p.stem>> ELSE <<p.dir, "/", p.stem, p.ext>>

\* the insert of update_autorun_list that puts the row first
insert_prog_first(l, p) ==
    [l EXCEPT !.proglist =
        <<[text |-> p,
           values |-> <<exe_of(p, l.hidePath),
                        IF p \in l.autorun THEN "Yes" ELSE "No">>]>> \o @]

\* the insert of update_autorun_list that never marks a row
insert_prog_no(l, p) ==
    [l EXCEPT !.proglist =
        tv_insert_end(@, p, <<exe_of(p, l.hidePath), "No">>)]

\* the body of the second loop of update_autorun_list
insert_prog(l, p) ==
    [l EXCEPT !.proglist =
        tv_insert_end(@, p, <<exe_of(p, l.hidePath),
                              IF p \in l.autorun THEN "Yes" ELSE "No">>)]

RECURSIVE insert_progs(_, _)
\* for p in self.progs, from the i-th on
insert_progs(l, i) ==
    IF i > Len(l.progs) THEN l
    ELSE insert_progs(insert_prog(l, l.progs[i]), i + 1)

\* TkGui.update_autorun_list
update_autorun_list(l) ==
    insert_progs(
        [l EXCEPT !.proglist = delete_children(@, @, 1)], 1)

\* the body of the second loop of update_hack_list: h['enabled'] raises
\* KeyError for a hack without that entry
insert_hack(l, k) ==
    IF l.hacks[k] = "KeyError"
    THEN [l EXCEPT !.raised = TRUE]
    ELSE [l EXCEPT !.hacklist =
             tv_insert_end(@, k, <<k, IF l.hacks[k] = "true" THEN "Yes"
                                      ELSE "No">>)]

\* the hacks get_hacks().items() yields, in its order
HackItems(h) == SelectSeq(HackOrder, LAMBDA k : k \in DOMAIN h)

RECURSIVE insert_hacks(_, _, _)
\* for k, h in self.lnp.get_hacks().items(), from the i-th on
insert_hacks(l, items, i) ==
    IF i > Len(items) \/ l.raised THEN l
    ELSE insert_hacks(insert_hack(l, items[i]), items, i + 1)

\* update_hack_list without its first loop
update_hack_list_no_clear(l) ==
    insert_hacks(l, HackItems(l.hacks), 1)

\* TkGui.update_hack_list; a deleted row leaves the selection, and the
\* inserted rows are new items
update_hack_list(l) ==
    LET rest == delete_children(l.hacklist, l.hacklist, 1)
    IN  insert_hacks(
            [l EXCEPT !.hacklist = rest,
                      !.sel = {k \in @ : \E i \in 1..Len(rest) :
                                            rest[i].text = k}],
            HackItems(l.hacks), 1)

RECURSIVE toggle_selected(_, _)
\* for item in self.hacklist.selection(): self.lnp.toggle_hack(...)
toggle_selected(h, sel) ==
    IF sel = {} THEN h
    ELSE LET k == CHOOSE k \in sel : TRUE
         IN  toggle_selected(lnp_toggle_hack(h, k), sel \ {k})

\* the lists and the controller take the values of l; op ends
ListBecomes(l, op) ==
    /\ autorun' = l.autorun
    /\ hidePath' = l.hidePath
    /\ hacks' = l.hacks
    /\ progs' = l.progs
    /\ proglist' = l.proglist
    /\ hacklist' = l.hacklist
    /\ hackSel' = l.sel
    /\ listLast' = [op |-> op, out |-> IF l.raised THEN "raised" ELSE "done",
                    toggled |-> IF op = "toggle_hack" THEN hackSel ELSE {}]

\* root.mainloop() is running: __init__ got there without an exception
ListRunning ==
    /\ listLast.op # "created"
    /\ ~(listLast.op = "init" /\ listLast.out = "raised")

\* TkGui.__init__ from read_utilities() to update_hack_list(): an
\* exception leaves __init__ before root.mainloop()
init_lists ==
    /\ listLast.op = "created"
    /\ \E ps \in ProgLists :
          LET l1 == update_autorun_list([ListState EXCEPT !.progs = ps])
          IN  ListBecomes(update_hack_list(l1), "init")
    /\ UNCHANGED <<selEvents, clicks>>
    /\ UNCHANGED <<tipVars, guiVars, fileVars, updVars>>

\* TkGui.read_utilities, the command of the Refresh List button
read_utilities ==
    /\ ListRunning
    /\ \E ps \in ProgLists :
          ListBecomes(update_autorun_list([ListState EXCEPT !.progs = ps]),
                      "read_utilities")
    /\ UNCHANGED <<selEvents, clicks>>
    /\ UNCHANGED <<tipVars, guiVars, fileVars, updVars>>

\* TkGui.toggle_autorun: a right click on a row of the utility list, or
\* below the last row
toggle_autorun ==
    /\ ListRunning
    /\ \E item \in {proglist[i].text : i \in 1..Len(proglist)} \cup {NoRow} :
          ListBecomes(
              update_autorun_list(
                  [ListState EXCEPT !.autorun = lnp_toggle_autorun(@, item)]),
              "toggle_autorun")
    /\ UNCHANGED <<selEvents, clicks>>
    /\ UNCHANGED <<tipVars, guiVars, fileVars, updVars>>

\* number of clicks on the hack list in a run
MaxClicks == 2

\* a click on a row of the hack list (selectmode='browse'): the row becomes
\* the selection and a <<TreeviewSelect>> event is queued
select_hack ==
    /\ ListRunning
    /\ clicks < MaxClicks
    /\ \E i \in 1..Len(hacklist) : hackSel' = {hacklist[i].text}
    /\ selEvents' = selEvents + 1
    /\ clicks' = clicks + 1
    /\ listLast' = [op |-> "select_hack", out |-> "done", toggled |-> {}]
    /\ UNCHANGED <<autorun, hidePath, hacks, progs, proglist, hacklist>>
    /\ UNCHANGED <<tipVars, guiVars, fileVars, updVars>>

\* toggle_hack whose rebuild selects the rows of the hacks that were selected
toggle_hack_reselects ==
    /\ ListRunning
    /\ selEvents > 0
    /\ IF \E k \in hackSel : hacks[k] = "KeyError"
       THEN /\ listLast' = [op |-> "toggle_hack", out |-> "raised",
                            toggled |-> {}]
            /\ selEvents' = selEvents - 1
            /\ UNCHANGED <<autorun, hidePath, hacks, progs, proglist,
                           hacklist, hackSel>>
       ELSE LET l == update_hack_list(
                         [ListState EXCEPT
                             !.hacks = toggle_selected(@, hackSel)])
            IN  /\ ListBecomes([l EXCEPT !.sel = hackSel], "toggle_hack")
                /\ selEvents' = selEvents - 1 + IF hackSel # {} THEN 1 ELSE 0
    /\ UNCHANGED clicks
    /\ UNCHANGED <<tipVars, guiVars, fileVars, updVars>>

\* TkGui.toggle_hack, bound to <<TreeviewSelect>>: one queued event is
\* handled.  Deleting the selected row empties the selection, for which Tk
\* queues a further <<TreeviewSelect>> event or, in older versions, none.
toggle_hack ==
    /\ ListRunning
    /\ selEvents > 0
    /\ IF \E k \in hackSel : hacks[k] = "KeyError"
       THEN /\ listLast' = [op |-> "toggle_hack", out |-> "raised",
                            toggled |-> {}]
            /\ selEvents' = selEvents - 1
            /\ UNCHANGED <<autorun, hidePath, hacks, progs, proglist,
                           hacklist, hackSel>>
       ELSE LET l == update_hack_list(
                         [ListState EXCEPT
                             !.hacks = toggle_selected(@, hackSel)])
            IN  /\ ListBecomes(l, "toggle_hack")
                /\ \E queued \in BOOLEAN :
                      /\ queued => l.sel # hackSel
                      /\ selEvents' = selEvents - 1
                                          + IF queued THEN 1 ELSE 0
    /\ UNCHANGED clicks
    /\ UNCHANGED <<tipVars, guiVars, fileVars, updVars>>

\* TkGui.__init__ up to read_utilities(): both Treeviews are empty
ListInit ==
    /\ autorun \in SUBSET Paths
    /\ hidePath \in BOOLEAN
    /\ hacks \in HackConfigs
    /\ progs = <<>>
    /\ proglist = <<>>
    /\ hacklist = <<>>
    /\ hackSel = {}
    /\ selEvents = 0
    /\ clicks = 0
    /\ listLast = [op |-> "created", out |-> "done", toggled |-> {}]

\* the lists while the rest of the interface is looked at
ListIdle ==
    /\ autorun = {}
    /\ hidePath = FALSE
    /\ hacks = [k \in HackNames |-> "false"]
    /\ progs = <<>>
    /\ proglist = <<>>
    /\ hacklist = update_hack_list(
                      [hacks |-> [k \in HackNames |-> "false"],
                       hacklist |-> <<>>, sel |-> {},
                       raised |-> FALSE]).hacklist
    /\ hackSel = {}
    /\ selEvents = 0
    /\ clicks = 0
    /\ listLast = [op |-> "init", out |-> "done", toggled |-> {}]

ListNext ==
    \/ init_lists
    \/ select_hack
    \/ read_utilities
    \/ toggle_autorun
    \/ toggle_hack

(***************************************************************************)
(* Keybinding and color scheme files: TkGui.save_keybinds,                 *)
(* delete_keybinds, save_colors, delete_colors.                            *)
(***************************************************************************)
\* the file names of the model, in the order lnp.read_keybinds() and
\* lnp.read_colors() list them
KeybindOrder == << <<"a", ".txt">>, <<"b", ".txt">> >>
ColorOrder == << <<"a">>, <<"b">> >>

\* what the user types in the askstring dialogs
KeybindInputs == {<<"a">>, <<"a", ".txt">>, <<"b">>}
ColorInputs == {<<"a">>, <<"b">>}

\* v.endswith('.txt')
endswith_txt(v) == Len(v) > 0 /\ v[Len(v)] = ".txt"

\* lnp.read_keybinds(), lnp.read_colors(): the files there are
lnp_read_keybinds(files) == SelectSeq(KeybindOrder, LAMBDA n : n \in files)
lnp_read_colors(files) == SelectSeq(ColorOrder, LAMBDA n : n \in files)

\* lnp.keybind_exists(v), lnp.color_exists(v)
lnp_keybind_exists(files, v) == v \in files
lnp_color_exists(files, v) == v \in files

\* lnp.save_keybinds(v), lnp.save_colors(v), lnp.delete_keybinds(v),
\* lnp.delete_colors(v)
lnp_save_keybinds(files, v) == files \cup {v}
lnp_save_colors(files, v) == files \cup {v}
lnp_delete_keybinds(files, v) == files \ {v}
lnp_delete_colors(files, v) == files \ {v}

\* the selection of a Listbox whose list variable is set to rows: a selected
\* row past the end of the new list is deselected
listvar_set(sel, rows) == IF sel <= Len(rows) THEN sel ELSE 0

\* the handler ends as g, having made the calls log
FileBecomes(op, out, log) ==
    /\ guiLast' = [Last(op, out) EXCEPT !.calls = log]
    /\ UNCHANGED <<settings, pack, autoClose, controls, widget, order,
                   rootAlive>>
    /\ UNCHANGED <<tipVars, listVars, updVars>>

\* TkGui.read_keybinds after the files became files
read_keybinds(files) ==
    /\ kbFiles' = files
    /\ keybinds' = lnp_read_keybinds(files)
    /\ kbSel' = listvar_set(kbSel, lnp_read_keybinds(files))
    /\ UNCHANGED <<colFiles, colors, colSel>>

\* TkGui.read_colors after the files became files
read_colors(files) ==
    /\ colFiles' = files
    /\ colors' = lnp_read_colors(files)
    /\ colSel' = listvar_set(colSel, lnp_read_colors(files))
    /\ UNCHANGED <<kbFiles, keybinds, kbSel>>

\* the user selects a row of the keybinding Listbox
select_keybind ==
    /\ rootAlive
    /\ \E i \in 1..Len(keybinds) : kbSel' = i
    /\ UNCHANGED <<kbFiles, colFiles, keybinds, colors, colSel>>
    /\ UNCHANGED <<tipVars, guiVars, listVars, updVars>>

\* the user selects a row of the color scheme Listbox
select_color ==
    /\ rootAlive
    /\ \E i \in 1..Len(colors) : colSel' = i
    /\ UNCHANGED <<kbFiles, colFiles, keybinds, colors, kbSel>>
    /\ UNCHANGED <<tipVars, guiVars, listVars, updVars>>

\* TkGui.save_keybinds: the user cancels the askstring dialog, or types a
\* name; asked about an existing file, the user answers no or yes
save_keybinds ==
    /\ rootAlive
    /\ \/ /\ FileBecomes("save_keybinds", "cancelled",
                         <<Call("askstring", <<"None">>)>>)
          /\ UNCHANGED fileVars
       \/ \E typed \in KeybindInputs, answer \in {"yes", "no"} :
             LET v == IF endswith_txt(typed) THEN typed
                      ELSE typed \o <<".txt">>
                 asked == <<Call("askstring", typed),
                            Call("keybind_exists", v)>>
             IN  IF ~lnp_keybind_exists(kbFiles, v)
                 THEN /\ read_keybinds(lnp_save_keybinds(kbFiles, v))
                      /\ FileBecomes("save_keybinds", "done",
                            asked \o <<Call("save_keybinds", v),
                                       Call("read_keybinds", <<>>)>>)
                 ELSE IF answer = "yes"
                 THEN /\ read_keybinds(lnp_save_keybinds(kbFiles, v))
                      /\ FileBecomes("save_keybinds", "done",
                            asked \o <<Call("askyesno", <<"yes">>),
                                       Call("save_keybinds", v),
                                       Call("read_keybinds", <<>>)>>)
                 ELSE /\ FileBecomes("save_keybinds", "cancelled",
                            asked \o <<Call("askyesno", <<"no">>)>>)
                      /\ UNCHANGED fileVars

\* delete_keybinds that does not look at the answer
delete_keybinds_unasked ==
    /\ rootAlive
    /\ kbSel # 0
    /\ \E answer \in {"yes", "no"} :
          LET filename == keybinds[kbSel]
          IN  /\ read_keybinds(lnp_delete_keybinds(kbFiles, filename))
              /\ FileBecomes("delete_keybinds", "done",
                     <<Call("askyesno", <<answer>>),
                       Call("delete_keybinds", filename),
                       Call("read_keybinds", <<>>)>>)

\* TkGui.delete_keybinds(listbox): nothing is selected, or the user answers
\* no or yes for the selected file
delete_keybinds ==
    /\ rootAlive
    /\ IF kbSel = 0
       THEN /\ FileBecomes("delete_keybinds", "cancelled", <<>>)
            /\ UNCHANGED fileVars
       ELSE \E answer \in {"yes", "no"} :
               LET filename == keybinds[kbSel]
               IN  IF answer = "yes"
                   THEN /\ read_keybinds(
                               lnp_delete_keybinds(kbFiles, filename))
                        /\ FileBecomes("delete_keybinds", "done",
                               <<Call("askyesno", <<"yes">>),
                                 Call("delete_keybinds", filename),
                                 Call("read_keybinds", <<>>)>>)
                   ELSE /\ read_keybinds(kbFiles)
                        /\ FileBecomes("delete_keybinds", "cancelled",
                               <<Call("askyesno", <<"no">>),
                                 Call("read_keybinds", <<>>)>>)

\* TkGui.save_colors: as save_keybinds, the name taken as typed
save_colors ==
    /\ rootAlive
    /\ \/ /\ FileBecomes("save_colors", "cancelled",
                         <<Call("askstring", <<"None">>)>>)
          /\ UNCHANGED fileVars
       \/ \E v \in ColorInputs, answer \in {"yes", "no"} :
             LET asked == <<Call("askstring", v), Call("color_exists", v)>>
             IN  IF ~lnp_color_exists(colFiles, v)
                 THEN /\ read_colors(lnp_save_colors(colFiles, v))
                      /\ FileBecomes("save_colors", "done",
                            asked \o <<Call("save_colors", v),
                                       Call("read_colors", <<>>)>>)
                 ELSE IF answer = "yes"
                 THEN /\ read_colors(lnp_save_colors(colFiles, v))
                      /\ FileBecomes("save_colors", "done",
                            asked \o <<Call("askyesno", <<"yes">>),
                                       Call("save_colors", v),
                                       Call("read_colors", <<>>)>>)
                 ELSE /\ FileBecomes("save_colors", "cancelled",
                            asked \o <<Call("askyesno", <<"no">>)>>)
                      /\ UNCHANGED fileVars

\* TkGui.delete_colors(listbox)
delete_colors ==
    /\ rootAlive
    /\ IF colSel = 0
       THEN /\ FileBecomes("delete_colors", "cancelled", <<>>)
            /\ UNCHANGED fileVars
       ELSE \E answer \in {"yes", "no"} :
               LET filename == colors[colSel]
               IN  IF answer = "yes"
                   THEN /\ read_colors(lnp_delete_colors(colFiles, filename))
                        /\ FileBecomes("delete_colors", "done",
                               <<Call("askyesno", <<"yes">>),
                                 Call("delete_colors", filename),
                                 Call("read_colors", <<>>)>>)
                   ELSE /\ read_colors(colFiles)
                        /\ FileBecomes("delete_colors", "cancelled",
                               <<Call("askyesno", <<"no">>),
                                 Call("read_colors", <<>>)>>)

\* TkGui.__init__ after read_keybinds and read_colors: one keybinding file
\* and one color scheme, nothing selected
FileIdle ==
    /\ kbFiles = {<<"a", ".txt">>}
    /\ colFiles = {<<"a">>}
    /\ keybinds = lnp_read_keybinds({<<"a", ".txt">>})
    /\ colors = lnp_read_colors({<<"a">>})
    /\ kbSel = 0
    /\ colSel = 0

FileNext ==
    \/ select_keybind
    \/ select_color
    \/ save_keybinds
    \/ delete_keybinds
    \/ save_colors
    \/ delete_colors
    \/ restore_defaults

(***************************************************************************)
(* UpdateWindow.                                                           *)
(***************************************************************************)
\* self.options
options ==
    <<"next launch", "1 day", "3 days", "7 days", "14 days", "30 days">>

\* the list [0, 1, 3, 7, 14, 30] of __init__ and of close
days_list == <<0, 1, 3, 7, 14, 30>>

\* what lnp.userconfig.get_number('updateDays') may return
UpdateDaysValues == {0, 1, 2, 3, 7, 14, 30}

\* list.index(x): the first position of x, counted from 1; 0 stands for
\* ValueError
index(list, x) ==
    IF \E i \in 1..Len(list) : list[i] = x
    THEN CHOOSE i \in 1..Len(list) :
            list[i] = x /\ \A j \in 1..(i - 1) : list[j] # x
    ELSE 0

\* default_idx of UpdateWindow.__init__, counted from 1: the first option
\* on ValueError
default_idx(d) == IF index(days_list, d) = 0 THEN 1 ELSE index(days_list, d)

\* an UpdateWindow: the Toplevel, the option variable and the controller
\* calls made
UpdState == [top |-> top, var |-> var, calls |-> uwCalls]

\* close that always reports the first option
close_first_option(u) ==
    [u EXCEPT !.calls = Append(@, Call("next_update", days_list[1])),
              !.top = "destroyed"]

\* UpdateWindow.close
close_on(u) ==
    LET days == days_list[index(options, u.var)]
    IN  [u EXCEPT !.calls = Append(@, Call("next_update", days)),
                  !.top = "destroyed"]

\* UpdateWindow.yes
yes_on(u) ==
    close_on([u EXCEPT !.calls = Append(@, Call("start_update", 0))])

\* the window becomes u, dismissed by how
UpdBecomes(u, how) ==
    /\ top' = u.top
    /\ var' = u.var
    /\ uwCalls' = u.calls
    /\ uwLast' = how
    /\ UNCHANGED updateDays
    /\ UNCHANGED <<tipVars, guiVars, listVars, fileVars>>

\* the user picks an option of the OptionMenu
choose_option ==
    /\ top = "open"
    /\ \E o \in 1..Len(options) : var' = options[o]
    /\ UNCHANGED <<updateDays, top, uwCalls, uwLast>>
    /\ UNCHANGED <<tipVars, guiVars, listVars, fileVars>>

\* the Yes button
yes ==
    /\ top = "open"
    /\ UpdBecomes(yes_on(UpdState), "yes")

\* the No button, or the window manager's close button
\* (WM_DELETE_WINDOW)
close ==
    /\ top = "open"
    /\ \E how \in {"no", "wm"} : UpdBecomes(close_on(UpdState), how)

\* lnp.new_version is None: no UpdateWindow is created
UpdIdle ==
    /\ updateDays = 0
    /\ top = "none"
    /\ var = ""
    /\ uwCalls = <<>>
    /\ uwLast = ""

\* UpdateWindow.__init__ up to wait_window
UpdInit ==
    /\ updateDays \in UpdateDaysValues
    /\ top = "open"
    /\ var = options[default_idx(updateDays)]
    /\ uwCalls = <<>>
    /\ uwLast = ""

UpdNext ==
    \/ choose_option
    \/ yes
    \/ close

\* create_tooltip(widget, text): ToolTip.__init__
TipInit ==
    /\ text \in Texts
    /\ tipwindow = None
    /\ active = FALSE
    /\ event = None
    /\ toplevels = {}
    /\ created = 0
    /\ timers = {}
    /\ nextTimer = 0
    /\ ptr \in Points
    /\ inside = FALSE
    /\ tipLast = "init"

TipNext ==
    \/ enter
    \/ leave
    \/ Tick
    \/ TimerFires
    \/ Motion
    \/ update_hack_tooltip
    \/ SetText

\* the tooltip of one widget, the rest of the interface at rest
TipSpecInit == TipInit /\ GuiIdle /\ ListIdle /\ FileIdle /\ UpdIdle

SpecTip == TipSpecInit /\ [][TipNext]_vars

\* a tooltip nobody hovers over
TipIdle ==
    /\ text = "a"
    /\ tipwindow = None
    /\ active = FALSE
    /\ event = None
    /\ toplevels = {}
    /\ created = 0
    /\ timers = {}
    /\ nextTimer = 0
    /\ ptr = <<0, 0>>
    /\ inside = FALSE
    /\ tipLast = "init"

\* the registered controls and the handlers that refresh them
GuiSpecInit == GuiInit /\ TipIdle /\ ListIdle /\ FileIdle /\ UpdIdle

SpecGui == GuiSpecInit /\ [][GuiNext]_vars

\* the registry while bindings are assigned to it
RegSpecInit == RegInit /\ TipIdle /\ ListIdle /\ FileIdle /\ UpdIdle

SpecRegister == RegSpecInit /\ [][RegNext]_vars

\* the two lists and the handlers that rebuild them
ListSpecInit == ListInit /\ TipIdle /\ GuiIdle /\ FileIdle /\ UpdIdle

SpecList == ListSpecInit /\ [][ListNext]_vars

\* root.mainloop() has started: the hack list shows the configured hacks,
\* each with an 'enabled' entry, and the utility list is empty
HackInit ==
    /\ autorun = {}
    /\ hidePath = FALSE
    /\ hacks \in {h \in HackConfigs : \A k \in DOMAIN h : h[k] # "KeyError"}
    /\ progs = <<>>
    /\ proglist = <<>>
    /\ hacklist = update_hack_list(
                      [hacks |-> hacks, hacklist |-> <<>>, sel |-> {},
                       raised |-> FALSE]).hacklist
    /\ hackSel = {}
    /\ selEvents = 0
    /\ clicks = 0
    /\ listLast = [op |-> "init", out |-> "done", toggled |-> {}]

HackNext ==
    \/ select_hack
    \/ toggle_hack

HackSpecInit == HackInit /\ TipIdle /\ GuiIdle /\ FileIdle /\ UpdIdle

\* the hack list alone; the event loop handles a queued <<TreeviewSelect>>
\* event
SpecHackLive == HackSpecInit /\ [][HackNext]_vars /\ WF_vars(toggle_hack)

\* the keybinding, color scheme and defaults buttons
FileSpecInit == FileIdle /\ TipIdle /\ GuiIdle /\ ListIdle /\ UpdIdle

SpecFiles == FileSpecInit /\ [][FileNext]_vars

\* the update window, shown before root.mainloop()
UpdSpecInit == UpdInit /\ TipIdle /\ GuiIdle /\ ListIdle /\ FileIdle

SpecUpdate == UpdSpecInit /\ [][UpdNext]_vars

\* the event loop runs a due timer, and lets time pass while one is pending
SpecTipLive == SpecTip /\ WF_vars(Tick) /\ WF_vars(TimerFires)

(***************************************************************************)
(* Claims about the hover notifier.                                        *)
(***************************************************************************)
\* the Toplevel that ToolTip.tipwindow names, as a set (empty when None)
TipWindows == {w \in toplevels : w.id = tipwindow}

\* C5: a pointer that enters and leaves before the timer fires never gets an
\* annotation: leave cancels the timer and leaves no window; while the
\* pointer stays outside nothing is created or scheduled; a window is only
\* ever created by the timer firing or by a redraw of an active tooltip, and
\* only the timer firing makes a tooltip active.
C5_NoFlicker ==
    [][ /\ (tipLast' = "leave" =>
               /\ timers' = {}
               /\ toplevels' = {}
               /\ created' = created
               /\ ~active')
        /\ (~inside /\ ~inside' =>
               /\ created' = created
               /\ timers' = {}
               /\ toplevels' = {}
               /\ ~active')
        /\ (created' # created => tipLast' = "timer" \/ active)
        /\ (active' /\ ~active => tipLast' = "timer")
      ]_vars

\* C5 witness: the pointer left while the timer was still counting down twice
\* over, and no window was ever created
C5_Witness ==
    /\ tipLast = "leave"
    /\ nextTimer = 2
    /\ text # ""
    /\ created = 0
    /\ timers = {}

\* C6: at most one timer is scheduled at any time, it is the one
\* ToolTip.event names, and right after an enter event the only timer is the
\* one that event scheduled, with the whole delay still to run.
C6_OneTimer ==
    [][ /\ Cardinality(timers') <= 1
        /\ \A t \in timers' : t.id = event'
        /\ (tipLast' = "enter" =>
               timers' = {[id |-> nextTimer', due |-> TOOLTIP_DELAY]})
      ]_vars

\* C6 witness: a third enter in a row (no window shown yet) leaves only the third timer pending
C6_Witness ==
    /\ tipLast = "enter"
    /\ nextTimer = 3
    /\ created = 0
    /\ timers = {[id |-> 3, due |-> TOOLTIP_DELAY]}

\* C7: with a non-empty text, enter creates no window, the timer firing on a
\* tooltip without a window creates exactly one, and leave destroys exactly
\* that one and creates none; and a pointer that has entered sees the
\* annotation unless it leaves or the text becomes empty.
C7_ShowHideOnce ==
    /\ [][ /\ (tipLast' = "enter" =>
                  created' = created /\ toplevels' = toplevels)
           /\ (tipLast' = "timer" /\ tipwindow = None /\ text # "" =>
                  /\ created' = created + 1
                  /\ tipwindow' = created'
                  /\ Cardinality(toplevels') = Cardinality(toplevels) + 1
                  /\ toplevels \subseteq toplevels')
           /\ (tipLast' = "leave" /\ tipwindow # None =>
                  /\ created' = created
                  /\ Cardinality(toplevels') = Cardinality(toplevels) - 1
                  /\ toplevels' = toplevels \ TipWindows
                  /\ tipwindow' = None)
         ]_vars
    /\ ((inside /\ text # "" /\ created < MaxWins)
            ~> (tipwindow # None \/ ~inside \/ text = ""))

\* C7 witness: one enter, the window was created once, and leave destroyed it
C7_Witness ==
    /\ tipLast = "leave"
    /\ nextTimer = 1
    /\ text # ""
    /\ created = 1
    /\ toplevels = {}
    /\ tipwindow = None

\* what a settext step leaves alone whatever the text
SetTextFrame ==
    /\ timers' = timers
    /\ event' = event
    /\ nextTimer' = nextTimer

\* C8 as stated: an unchanged text changes nothing; a changed text on a shown
\* tooltip destroys the window and creates a new one with the new text,
\* without a timer; a changed text on an inactive tooltip changes only the text.
C8_Original ==
    [][ tipLast' = "settext" =>
          /\ SetTextFrame
          /\ (text' = text =>
                 UNCHANGED <<tipwindow, active, toplevels, created>>)
          /\ (text' # text /\ tipwindow # None =>
                 /\ tipwindow' # None
                 /\ tipwindow' # tipwindow
                 /\ toplevels' = {w \in toplevels' :
                                     w.id = tipwindow' /\ w.text = text'}
                 /\ toplevels' # {})
          /\ (text' # text /\ ~active =>
                 UNCHANGED <<tipwindow, active, toplevels, created>>)
      ]_vars

\* C8 amended: as stated, except that a changed text on a shown tooltip
\* recreates the window only when the new text is not empty; with an empty
\* new text the window is destroyed, none is created, and the tooltip stays
\* active.
C8_SetText ==
    [][ tipLast' = "settext" =>
          /\ SetTextFrame
          /\ (text' = text =>
                 UNCHANGED <<tipwindow, active, toplevels, created>>)
          /\ (text' # text /\ tipwindow # None =>
                 /\ active'
                 /\ TipWindows \cap toplevels' = {}
                 /\ IF text' = ""
                    THEN /\ tipwindow' = None
                         /\ toplevels' = {}
                         /\ created' = created
                    ELSE /\ tipwindow' = created + 1
                         /\ created' = created + 1
                         /\ \E w \in toplevels' :
                               /\ toplevels' = {w}
                               /\ w.id = tipwindow'
                               /\ w.text = text')
          /\ (text' # text /\ ~active =>
                 UNCHANGED <<tipwindow, active, toplevels, created>>)
      ]_vars

\* C8 witness: a shown tooltip was given another non-empty text and redrawn
C8_Witness ==
    /\ tipLast = "settext"
    /\ created = 2
    /\ active
    /\ \E w \in toplevels : w.id = 2 /\ w.text = text /\ text # ""

\* C9 as stated: a settext that changes the text of an active tooltip puts
\* the new annotation where the old one was and schedules no timer.
C9_Original ==
    [][ tipLast' = "settext" /\ text' # text /\ active =>
          /\ SetTextFrame
          /\ \A old \in TipWindows : \A new \in toplevels' :
                new.x = old.x /\ new.y = old.y
      ]_vars

\* C9 amended: a settext that changes the text of an active tooltip puts the
\* new annotation at the pointer's position at the time of the update, +16
\* on each axis (so it moves when the pointer has moved), shows the new text
\* when it is not empty, and schedules no timer.
C9_RedrawAtPointer ==
    [][ tipLast' = "settext" /\ text' # text /\ active =>
          /\ SetTextFrame
          /\ (text' # "" => toplevels' # {})
          /\ \A new \in toplevels' :
                /\ new.id = tipwindow'
                /\ new.text = text'
                /\ new.x = ptr'[1] + 16
                /\ new.y = ptr'[2] + 16
      ]_vars

\* C9 witness: the annotation was redrawn after the pointer had moved away
\* from where it was first shown
C9_Witness ==
    /\ tipLast = "settext"
    /\ created = 2
    /\ ptr = <<1, 1>>
    /\ \E w \in toplevels :
          w.id = 2 /\ w.text = text /\ w.x = 1 + 16 /\ w.y = 1 + 16

\* C10: when the timer fires the tooltip becomes active; with an empty text
\* no window exists afterwards and none was created; with a non-empty text
\* the window shows the text the tooltip has at that moment, and a window
\* created by the firing is anchored at the pointer +16 on each axis.
C10_TimerRenders ==
    [][ tipLast' = "timer" =>
          /\ active'
          /\ text' = text
          /\ IF text = ""
             THEN toplevels' = {} /\ tipwindow' = None /\ created' = created
             ELSE /\ \E w \in toplevels' :
                        /\ toplevels' = {w}
                        /\ w.id = tipwindow'
                        /\ w.text = text
                  /\ (tipwindow = None =>
                        \E w \in toplevels' :
                           /\ w.id = created + 1
                           /\ w.x = ptr[1] + 16
                           /\ w.y = ptr[2] + 16)
      ]_vars

\* C10 witness: the timer fired with the pointer at <<1, 0>> and drew the text
C10_Witness ==
    /\ tipLast = "timer"
    /\ ptr = <<1, 0>>
    /\ text = "b"
    /\ toplevels = {[id |-> 1, text |-> "b", x |-> 17, y |-> 16]}

\* C10 witness for the empty text: the timer fired and nothing was drawn
C10_WitnessEmpty ==
    /\ tipLast = "timer"
    /\ text = ""
    /\ active
    /\ toplevels = {}

\* C11: while the pointer is outside the widget (before the first enter, and
\* from a leave to the next enter) the tooltip is idle, whatever state the
\* leave found it in and whatever settext calls are made meanwhile: there
\* is no annotation window, no timer is pending and active is false.
C11_IdleOutside ==
    ~inside =>
        /\ tipwindow = None
        /\ toplevels = {}
        /\ timers = {}
        /\ ~active

\* C11 witness: the annotation was shown, the pointer left, and settext then
\* gave the tooltip a new non-empty text
C11_Witness ==
    /\ ~inside
    /\ created > 0
    /\ tipLast = "settext"
    /\ text = "b"
    /\ toplevels = {}

\* C25: a tooltip has at most one annotation window, and it is the one
\* tipwindow names (a replaced or hidden window is destroyed); a timer that
\* fires while the annotation is shown creates no window and leaves the
\* shown one as it is.
C25_OneWindow ==
    /\ [](Cardinality(toplevels) <= 1 /\ toplevels = TipWindows)
    /\ [][ (tipLast' = "timer" /\ tipwindow # None) =>
               /\ toplevels' = toplevels
               /\ tipwindow' = tipwindow
               /\ created' = created ]_vars

\* C25 witness: a timer has fired while the annotation, created where the
\* pointer was before it moved, was shown
C25_Witness ==
    /\ tipLast = "timer"
    /\ nextTimer = 2
    /\ created = 1
    /\ \E w \in toplevels :
          /\ w.id = tipwindow
          /\ w.x # ptr[1] + TIP_OFFSET

\* C26: whenever the annotation window exists, active is true, the text is
\* not empty and the window shows the tooltip's current text.
C26_WindowShowsText ==
    tipwindow # None =>
        /\ active
        /\ text # ""
        /\ \E w \in toplevels : w.id = tipwindow /\ w.text = text

\* C26 witness: settext changed the text of a shown annotation
C26_Witness ==
    /\ tipLast = "settext"
    /\ created = 2
    /\ tipwindow = 2
    /\ text = "b"

\* C27: a timer firing while the text is empty makes the tooltip active
\* without a window; on an active tooltip a settext with a new non-empty
\* text shows the annotation at once, with no timer scheduled, and a
\* settext('') hides it and leaves the tooltip active.
C27_ActiveWithoutWindow ==
    [][ /\ (tipLast' = "timer" /\ text = "" /\ tipwindow = None) =>
               (active' /\ tipwindow' = None /\ toplevels' = toplevels)
        /\ (tipLast' = "settext" /\ active /\ text' # text /\ text' # "") =>
               /\ \E w \in toplevels' : w.id = tipwindow' /\ w.text = text'
               /\ timers' = timers
               /\ event' = event
               /\ active'
        /\ (tipLast' = "settext" /\ active /\ text' # text /\ text' = "") =>
               (tipwindow' = None /\ toplevels' = {} /\ active')
      ]_vars

\* C27 witness: the timer fired on an empty text, a settext then showed the
\* first annotation, and settext('') has hidden it with the pointer inside
C27_Witness ==
    /\ tipLast = "settext"
    /\ inside
    /\ nextTimer = 1
    /\ created = 1
    /\ text = ""
    /\ active
    /\ tipwindow = None
    /\ toplevels = {}

(***************************************************************************)
(* Claims about the controls registry and update_displays.                 *)
(***************************************************************************)
\* the value a control displays: an Entry's content; for a Button or Label
\* what follows the first ": " of its text (nothing without a ":")
Displayed(k) ==
    LET t == widget[k]
        n == Len(split0(t))
    IN  IF controls[k].widget = "Entry" THEN Some(t)
        ELSE IF n = Len(t) THEN NoValue
        ELSE IF n + 1 < Len(t) /\ t[n + 2] = " "
             THEN Some(SubSeq(t, n + 3, Len(t)))
             ELSE NoValue

\* control k displays the controller's current value for its key: func of
\* it for a (control, func) binding, the raw value otherwise
Shows(k) ==
    IF controls[k].func # "none"
    THEN Displayed(k) = Some(Project(controls[k].func, Controller, NoValue))
    ELSE /\ k \in DOMAIN settings
         /\ Displayed(k) = Some(settings[k])

\* the controller has a value for k, and k's own Entry validation accepts it
Renderable(k) ==
    \/ controls[k].func # "none"
    \/ /\ k \in DOMAIN settings
       /\ controls[k].widget = "Entry" => validate_number(settings[k])

\* C1: after update_displays has completed, every registered control
\* displays func(raw value) when bound with a func and the raw value of
\* lnp.settings.<key> otherwise, whatever the controller's state.
C1_RefreshShowsValues ==
    (guiLast.op = "update_displays" /\ guiLast.out = "done") =>
        \A k \in Keys : Shows(k)

\* C2: a second update_displays right after a first one, with no handler in
\* between, leaves the text of every Button and Label and the content of
\* every Entry as the first one left them.
C2_RefreshIdempotent ==
    [][ (guiLast'.op = "update_displays" /\ guiLast'.twice) =>
            widget' = widget ]_vars

\* C2 witness: update_displays ran twice in a row over a value with a ":"
\* and a changed population cap
C2_Witness ==
    /\ guiLast.op = "update_displays"
    /\ guiLast.out = "done"
    /\ guiLast.twice
    /\ widget["childcap"] = <<"Child Cap", ":", " ", "2", ":", "1">>
    /\ widget["popcap"] = <<"Population Cap", ":", " ", "2">>
    /\ widget["volume"] = <<"1">>

\* C2 witness for a refresh that raises both times
C2_WitnessRaised ==
    /\ guiLast.op = "update_displays"
    /\ guiLast.out = "raised"
    /\ guiLast.twice
    /\ "volume" \notin DOMAIN settings

\* C3: when the controller has no value for one key, update_displays still
\* makes every other key display the controller's current value.
C3_RefreshIsolatesFailure ==
    guiLast.op = "update_displays" =>
        \A k \in Keys : Renderable(k) => Shows(k)

\* the handlers that change controller settings
SettingHandlers ==
    {"set_pop_cap", "set_child_cap", "cycle_option", "set_option",
     "toggle_autoclose", "load_params", "install_graphics",
     "restore_defaults"}

\* C4: when a handler that changed controller settings has returned, every
\* registered control displays the controller's current value for its key.
C4_HandlersRefresh ==
    (guiLast.op \in SettingHandlers /\ guiLast.out = "done") =>
        \A k \in Keys : Renderable(k) => Shows(k)

\* C16: an assignment to self.controls under a key that is already
\* registered fails (DuplicateKeyError) and leaves the binding of every
\* registered key as it was.
C16_DuplicateKeyRejected ==
    [][ guiLast'.op = "register" =>
            /\ \A k \in DOMAIN controls : controls'[k] = controls[k]
            /\ (DOMAIN controls' = DOMAIN controls) => guiLast'.out = "raised"
      ]_vars

\* C17: self.controls is what the create_* methods registered, and no
\* handler or refresh run after construction adds, removes or replaces a
\* key or a binding.
C17_RegistryFixed ==
    [][ /\ controls = register_from(EmptyDict, 1)
        /\ DOMAIN controls' = DOMAIN controls
        /\ \A k \in DOMAIN controls : controls'[k] = controls[k] ]_vars

\* C17 witness: handlers have changed settings and widgets, a refresh has
\* raised, and the registry still holds the six bindings
C17_Witness ==
    /\ guiLast.op = "update_displays"
    /\ guiLast.out = "raised"
    /\ settings # Defaults
    /\ widget["popcap"] = <<"Population Cap", ":", " ", "2">>
    /\ DOMAIN controls = Keys
    /\ controls["FONT"] = [widget |-> "Label", func |-> "current_pack"]

\* C18: set_option(field), for any registered key whatever its binding,
\* forwards the value the key's control shows to lnp.set_option(field, .)
\* and then refreshes all controls; nothing but the refresh can raise.
C18_SetOptionForwards ==
    [][ guiLast'.op = "set_option" =>
            LET field == guiLast'.arg
                shown == Displayed(field)
                g == update_displays(
                         lnp_set_option(Controller, field, shown.val),
                         widget, order)
            IN  /\ shown.some
                /\ settings' = g.c.settings
                /\ widget' = g.w
                /\ guiLast'.out = IF g.raised THEN "raised" ELSE "done"
      ]_vars

\* C19: while update_displays runs no lnp.set_option call reaches the
\* controller, the write traces of the Entry variables included, and the
\* controller's settings are afterwards what they were before.
C19_RefreshReadOnly ==
    [][ guiLast'.op = "update_displays" =>
            /\ guiLast'.writes = {}
            /\ settings' = settings
            /\ pack' = pack
            /\ autoClose' = autoClose
      ]_vars

\* C20: whatever handler runs, at most one update_displays call is in
\* progress at any time: the funcs, the Entry delete and insert, the write
\* traces and change_entry do not call it.
C20_NoReentry ==
    /\ guiLast.depth <= 1
    /\ guiLast.op = "update_displays" => guiLast.depth = 1

\* C20 witness: a refresh during which the write trace of the volume Entry
\* ran change_entry with a value, after a handler that refreshes
C20_Witness ==
    /\ guiLast.op = "update_displays"
    /\ guiLast.out = "done"
    /\ [key |-> "volume", value |-> <<"1">>] \in guiLast.writes
    /\ guiLast.depth = 1
    /\ autoClose

\* the handlers that write one setting through the controller
WriteHandlers == {"set_pop_cap", "set_child_cap", "cycle_option", "set_option"}

\* C21: when the controller refuses the write of set_pop_cap,
\* set_child_cap, cycle_option or set_option, the exception leaves the
\* handler: it does not return normally, does not refresh the controls, and
\* settings and controls stay as they were.
C21_RejectedWriteSurfaces ==
    [][ (guiLast'.op \in WriteHandlers /\ guiLast'.rejected) =>
            /\ guiLast'.out = "raised"
            /\ guiLast'.depth = 0
            /\ widget' = widget
            /\ settings' = settings
      ]_vars

\* C21 witness: the controller refused the value of the volume Entry that
\* set_option forwarded, and the Entry still shows that value
C21_Witness ==
    /\ guiLast.op = "set_option"
    /\ guiLast.arg = "volume"
    /\ guiLast.rejected
    /\ widget["volume"] = <<>>
    /\ "volume" \in DOMAIN settings
    /\ settings["volume"] = <<"1">>

\* C23: the write trace of an Entry variable calls lnp.set_option(key,
\* content) exactly when the new content is not the empty string; for the
\* empty string no write is made and the controller keeps its value.
C23_ChangeEntryGuard ==
    [][ (guiLast'.op = "type_entry" /\ guiLast'.out # "cancelled") =>
            LET key == guiLast'.arg
                content == widget'[key]
            IN  IF content # <<>>
                THEN /\ guiLast'.writes = {[key |-> key, value |-> content]}
                     /\ ~guiLast'.rejected =>
                            settings' = (key :> content) @@ settings
                ELSE /\ guiLast'.writes = {}
                     /\ settings' = settings
      ]_vars

\* C23 witness: the volume Entry was emptied and the controller still has
\* the volume that was typed before
C23_Witness ==
    /\ guiLast.op = "type_entry"
    /\ guiLast.out = "done"
    /\ widget["volume"] = <<>>
    /\ "volume" \in DOMAIN settings
    /\ settings["volume"] = <<"1">>

\* the Buttons and Labels of the registry
TextKeys == {k \in Keys : controls[k].widget # "Entry"}

\* the value a refresh gives key k to display, when there is one
ValueOf(k) ==
    IF controls[k].func # "none"
    THEN Some(Project(controls[k].func, Controller, NoValue))
    ELSE IF k \in DOMAIN settings THEN Some(settings[k]) ELSE NoValue

\* C24: the text of every registered Button and Label is its label of
\* construction time, ': ', and one value; whenever the text changes, the
\* value is the current one, also when the value itself contains ':'.
C24_LabelKept ==
    /\ [](\A k \in TextKeys :
             /\ split0(widget[k]) = ConstructionText[k]
             /\ Displayed(k).some
             /\ widget[k] = ConstructionText[k] \o <<":", " ">>
                                \o Displayed(k).val)
    /\ [][ \A k \in TextKeys :
               widget'[k] # widget[k] =>
                   /\ ValueOf(k)'.some
                   /\ widget'[k] = ConstructionText[k] \o <<":", " ">>
                                       \o ValueOf(k)'.val ]_vars

\* C24 witness: after other values were shown the settings were loaded
\* anew; the button shows the label and the last value, which has a ':'
C24_Witness ==
    /\ guiLast.op = "load_params"
    /\ guiLast.out = "done"
    /\ widget["childcap"] = <<"Child Cap", ":", " ", "1", ":", "2">>
    /\ widget["popcap"] = <<"Population Cap", ":", " ", "1">>
    /\ widget["FONT"] = <<"Current Graphics", ":", " ", "Phoebus">>
    /\ autoClose

\* C28: when lnp.load_params raises IOError, load_params destroys the root
\* window and does not run update_displays on it; when the load succeeds,
\* update_displays runs once.
C28_NoRefreshAfterDestroy ==
    [][ guiLast'.op = "load_params" =>
            IF rootAlive' THEN guiLast'.depth = 1 ELSE guiLast'.depth = 0
      ]_vars

(***************************************************************************)
(* Claims about the utility list and the hack list.                        *)
(***************************************************************************)
\* a list rebuild has run and returned
Rebuilt == listLast.op # "created" /\ listLast.out = "done"

\* the text of every row, top to bottom
RowTexts(rows) == [i \in 1..Len(rows) |-> rows[i].text]

\* C12: once update_autorun_list has returned, the utility list has one row
\* per element of self.progs, in the order of self.progs, duplicates and
\* the empty list included; once update_hack_list has returned, the hack
\* list has one row per entry of lnp.get_hacks().
C12_RowPerItem ==
    Rebuilt =>
        /\ Len(proglist) = Len(progs)
        /\ RowTexts(proglist) = progs
        /\ Len(hacklist) = Cardinality(DOMAIN hacks)
        /\ {hacklist[i].text : i \in 1..Len(hacklist)} = DOMAIN hacks

\* C12 witness: Refresh List found two different utilities after the list
\* had shown one utility twice
C12_Witness ==
    /\ listLast.op = "read_utilities"
    /\ listLast.out = "done"
    /\ Len(progs) = 2
    /\ progs[1] # progs[2]
    /\ Len(proglist) = 2

\* C12 witness for a list with the same utility twice
C12_WitnessDuplicate ==
    /\ listLast.op = "read_utilities"
    /\ listLast.out = "done"
    /\ Len(progs) = 2
    /\ progs[1] = progs[2]
    /\ Len(proglist) = 2

\* C12 witness for an empty list
C12_WitnessEmpty ==
    /\ listLast.op = "read_utilities"
    /\ listLast.out = "done"
    /\ progs = <<>>
    /\ proglist = <<>>
    /\ autorun # {}

\* the rows the current items and statuses alone give
ProgRows ==
    [i \in 1..Len(progs) |->
        [text |-> progs[i],
         values |-> <<exe_of(progs[i], hidePath),
                      IF progs[i] \in autorun THEN "Yes" ELSE "No">>]]

HackRows ==
    LET items == HackItems(hacks)
    IN  [i \in 1..Len(items) |->
            [text |-> items[i],
             values |-> <<items[i],
                          IF hacks[items[i]] = "true" THEN "Yes" ELSE "No">>]]

\* C13: a rebuild that returns leaves exactly the rows that the current
\* items and statuses give, none of the rows that were there before, and a
\* second rebuild on the same data leaves the same rows in the same order.
C13_FullReplacement ==
    [][ /\ (listLast'.op \in {"init", "read_utilities", "toggle_autorun"}
            /\ listLast'.out = "done") =>
               /\ proglist' = ProgRows'
               /\ update_autorun_list(ListState').proglist = proglist'
        /\ (listLast'.op \in {"init", "toggle_hack"}
            /\ listLast'.out = "done") =>
               /\ hacklist' = HackRows'
               /\ update_hack_list(ListState').hacklist = hacklist'
      ]_vars

\* C13 witness: a hack was toggled while the list showed two hacks
C13_Witness ==
    /\ listLast.op = "toggle_hack"
    /\ listLast.out = "done"
    /\ Len(hacklist) = 2
    /\ hacks["h1"] = "true"
    /\ hacks["h2"] = "false"

\* C14: the status column of every row is the controller's status of the
\* row's item: 'Yes' exactly for a utility in lnp.autorun and for a hack
\* whose 'enabled' is true, also after any toggle_autorun and toggle_hack.
C14_StatusAgrees ==
    /\ \A i \in 1..Len(proglist) :
          (proglist[i].values[2] = "Yes") <=> (proglist[i].text \in autorun)
    /\ \A i \in 1..Len(proglist) : proglist[i].values[2] \in {"Yes", "No"}
    /\ \A i \in 1..Len(hacklist) :
          (hacklist[i].values[2] = "Yes") <=> (hacks[hacklist[i].text] = "true")
    /\ \A i \in 1..Len(hacklist) : hacklist[i].values[2] \in {"Yes", "No"}

\* C14 witness: after a toggle_autorun one of two listed utilities is
\* marked and the other is not, and the hacks differ too
C14_Witness ==
    /\ listLast.op = "toggle_autorun"
    /\ Len(proglist) = 2
    /\ proglist[1].values[2] = "No"
    /\ proglist[2].values[2] = "Yes"
    /\ Len(hacklist) = 2
    /\ hacklist[1].values[2] = "Yes"
    /\ hacklist[2].values[2] = "No"

\* C15: when a hack's status cannot be derived during a rebuild, the hack
\* list still has one row per hack: the failing one with the status
\* 'unknown', every other one with its correct status.
C15_StatusFailureIsolated ==
    listLast.op \in {"init", "toggle_hack"} =>
        /\ RowTexts(hacklist) = HackItems(hacks)
        /\ \A i \in 1..Len(hacklist) :
              hacklist[i].values[2] =
                  CASE hacks[hacklist[i].text] = "true"  -> "Yes"
                    [] hacks[hacklist[i].text] = "false" -> "No"
                    [] OTHER                             -> "unknown"

\* what is left to handle on the hack list: the queued selection events,
\* and one more while a row is selected
Pending == selEvents + IF hackSel # {} THEN 1 ELSE 0

\* C22: toggle_hack, handling one selection event, toggles every selected
\* hack once and rebuilds the list, which leaves nothing selected; run for
\* an event the rebuild caused, it finds no selection, toggles nothing and
\* causes no further event, so that the queued events run out.
C22_SelectionChainEnds ==
    /\ [][ (listLast'.op = "toggle_hack" /\ listLast'.out = "done") =>
               /\ listLast'.toggled = hackSel
               /\ \A k \in DOMAIN hacks :
                     hacks'[k] = IF k \notin hackSel THEN hacks[k]
                                 ELSE IF hacks[k] = "true" THEN "false"
                                 ELSE "true"
               /\ hacklist' = HackRows'
               /\ hackSel' = {}
               /\ hackSel = {} => (hacks' = hacks /\ selEvents' = selEvents - 1)
               /\ Pending' < Pending ]_vars
    /\ (selEvents > 0) ~> (selEvents = 0)

\* C22 witness: after one click, the event the rebuild caused has been
\* handled with nothing selected, and no event is left
C22_Witness ==
    /\ listLast.op = "toggle_hack"
    /\ listLast.out = "done"
    /\ listLast.toggled = {}
    /\ clicks = 1
    /\ selEvents = 0
    /\ hackSel = {}

\* the position before position i of log holds the user's yes
AnsweredYes(log, i) == i > 1 /\ log[i - 1] = Call("askyesno", <<"yes">>)

\* C29: a handler calls lnp.delete_keybinds / lnp.delete_colors only with the
\* file selected in its Listbox and directly after the user answered yes;
\* it calls lnp.save_keybinds / lnp.save_colors with a name that exists only
\* directly after the user answered yes to the overwrite question; it calls
\* lnp.restore_defaults only directly after the user answered yes; and no
\* file disappears without such a delete call.
C29_DestructiveCallsConfirmed ==
    [][ guiLast' # guiLast =>
          LET log == guiLast'.calls
          IN  /\ \A i \in 1..Len(log) :
                    /\ log[i].call = "delete_keybinds" =>
                          /\ kbSel # 0
                          /\ log[i].arg = keybinds[kbSel]
                          /\ AnsweredYes(log, i)
                    /\ log[i].call = "delete_colors" =>
                          /\ colSel # 0
                          /\ log[i].arg = colors[colSel]
                          /\ AnsweredYes(log, i)
                    /\ (log[i].call = "save_keybinds"
                           /\ log[i].arg \in kbFiles) => AnsweredYes(log, i)
                    /\ (log[i].call = "save_colors"
                           /\ log[i].arg \in colFiles) => AnsweredYes(log, i)
                    /\ log[i].call = "restore_defaults" =>
                          AnsweredYes(log, i)
              /\ \A f \in kbFiles \ kbFiles' :
                    \E i \in 1..Len(log) :
                       log[i] = Call("delete_keybinds", f)
              /\ \A f \in colFiles \ colFiles' :
                    \E i \in 1..Len(log) :
                       log[i] = Call("delete_colors", f) ]_vars

\* C29 witness: the second keybinding file, saved before, has been deleted
\* after the user's yes
C29_Witness ==
    /\ guiLast.op = "delete_keybinds"
    /\ guiLast.calls = <<Call("askyesno", <<"yes">>),
                         Call("delete_keybinds", <<"b", ".txt">>),
                         Call("read_keybinds", <<>>)>>
    /\ kbFiles = {<<"a", ".txt">>}
    /\ kbSel = 0

\* the day count of an option, as its label says
DaysOf(o) ==
    CASE o = "next launch" -> 0
      [] o = "1 day"       -> 1
      [] o = "3 days"      -> 3
      [] o = "7 days"      -> 7
      [] o = "14 days"     -> 14
      [] o = "30 days"     -> 30

\* C30: while the update window is open it has called nothing; once it is
\* dismissed it is destroyed, lnp.next_update has been called exactly once,
\* last, with the day count of the selected option, and lnp.start_update has
\* been called exactly when the window was dismissed with Yes, and then once
\* and before next_update.
C30_DismissalCallsNextUpdate ==
    /\ top = "open" => (uwCalls = <<>> /\ uwLast = "")
    /\ uwLast # "" => top = "destroyed"
    /\ top = "destroyed" =>
          /\ uwLast \in {"yes", "no", "wm"}
          /\ uwCalls =
                (IF uwLast = "yes" THEN <<Call("start_update", 0)>>
                 ELSE <<>>) \o <<Call("next_update", DaysOf(var))>>

\* C30 witness: the window, opened on "next launch" for a configured value
\* that is none of the day counts, was dismissed with Yes on "14 days"
C30_Witness ==
    /\ updateDays = 2
    /\ top = "destroyed"
    /\ uwLast = "yes"
    /\ var = "14 days"
    /\ uwCalls = <<Call("start_update", 0), Call("next_update", 14)>>


=============================================================================
